---- MODULE Spec2Model ----
(***************************************************************************)
(* Model of src/ring.rs: the bounded modular ring (SmallRing,              *)
(* SmallRingElement and its operator impls) and extended_euclidean.        *)
(*                                                                         *)
(* extended_euclidean is modelled as a step machine (one step per loop     *)
(* iteration) so that its traces `down` and `up` and its termination are   *)
(* observable.  Rows [i64; 4] are 4-tuples; Rust index i is TLA+ index     *)
(* i + 1.  All i64 values stay far inside the 64-bit range for the         *)
(* bounded inputs, so no wrap-around is modelled for them.                 *)
(***************************************************************************)
EXTENDS Integers, Sequences, FiniteSets, TLC

\* Bounds of the model (not program constants).
MaxVal == 8
MaxMod == 4
MaxRaw == 5

\* extended_euclidean:
\*   x0, y0       the caller's arguments x and y
\*   phase        1: the call on (x, y); 2: the caller's second call, on (y, x)
\*   prev         what the first call returned (set when the second starts)
\*   pc           position in the body: start, forward, backward, done
\*   x, y         the locals x and y after abs and ordering (line 150)
\*   swapped      the local `swapped`
\*   current_row  the local `current_row`
\*   down, up     the two traces of ExtendedEuclideanView
\*   k            index into down of the row the backward loop visits next
\*   result       the returned Result (the view is down/up)
\* SmallRingElement operators:
\*   op           the operator last called
\*   lhs, rhs     its operands (rhs = lhs for neg)
\*   out          what the call produced
\* Not modelled: i64::abs on i64::MIN and a ring with module 0 (both outside
\* the bounded inputs).
VARIABLES x0, y0, phase, prev, pc, x, y, swapped, current_row, down, up, k,
          result, op, lhs, rhs, out

euclidVars == <<x0, y0, phase, prev, pc, x, y, swapped, current_row, down,
                up, k, result>>
ringVars == <<op, lhs, rhs, out>>
vars == <<x0, y0, phase, prev, pc, x, y, swapped, current_row, down, up, k,
          result, op, lhs, rhs, out>>

----------------------------------------------------------------------------
\* extended_euclidean: the pure pieces of the function body.

\* i64::abs
Abs(n) == IF n < 0 THEN 0 - n ELSE n

\* let swapped = x < y;
IsSwapped(ax, ay) == ax < ay

OrderedLargerFirst(ax, ay) == IF IsSwapped(ax, ay) THEN <<ay, ax>> ELSE <<ax, ay>>
\* let (x, y) = if swapped { (x, y) } else { (y, x) };
Ordered(ax, ay) == IF IsSwapped(ax, ay) THEN <<ax, ay>> ELSE <<ay, ax>>

\* if y < 2 { return Err(y); }
IsDegenerate(oy) == oy < 2

\* while current_row[1] > 1
LoopCond(row) == row[2] > 1

\* current_row[2] = current_row[0] / current_row[1];
\* current_row[3] = current_row[0] % current_row[1];
DivRow(row) == <<row[1], row[2], row[1] \div row[2], row[1] % row[2]>>

NextRowKeepDivisor(row) == <<row[4], row[2], 0, 0>>
\* current_row = [current_row[1], current_row[3], 0, 0];
NextRow(row) == <<row[2], row[4], 0, 0>>

LoopGcdDivisor(row) == row[2]
\* return Err(current_row[0]);
LoopGcd(row) == row[1]

\* current_row = [last_step[0], 1, last_step[1], -last_step[2]];
SeedRow(last) == <<last[1], 1, last[2], 0 - last[3]>>

BackRowPlus(cur, z, d) == <<z, cur[4], cur[1], cur[2] + cur[4] * d>>
\* current_row = [*z, current_row[3], current_row[0],
\*                current_row[1] - current_row[3] * d];
BackRow(cur, z, d) == <<z, cur[4], cur[1], cur[2] - cur[4] * d>>

CoeffsUnswapped(sw, cur) == <<cur[4], cur[2]>>
\* let (a, b) = if swapped { (row[1], row[3]) } else { (row[3], row[1]) };
Coeffs(sw, cur) == IF sw THEN <<cur[2], cur[4]>> ELSE <<cur[4], cur[2]>>

\* Result<(i64, i64, ExtendedEuclideanView), i64>; the view is down/up.
Ok(a, b) == [kind |-> "ok", a |-> a, b |-> b, gcd |-> 0]
Err(g) == [kind |-> "err", a |-> 0, b |-> 0, gcd |-> g]
\* down.last().expect("Infallible") on an empty trace
Panicked == [kind |-> "panic", a |-> 0, b |-> 0, gcd |-> 0]
NoResult == [kind |-> "none", a |-> 0, b |-> 0, gcd |-> 0]

ZeroRow == <<0, 0, 0, 0>>

----------------------------------------------------------------------------
\* extended_euclidean: the steps.

\* Lines 147-157: normalise, order, degenerate return, first current_row.
Normalize ==
    /\ pc = "start"
    /\ LET ax == Abs(x0)
           ay == Abs(y0)
           o  == Ordered(ax, ay)
       IN /\ swapped' = IsSwapped(ax, ay)
          /\ x' = o[1]
          /\ y' = o[2]
          /\ IF IsDegenerate(o[2])
                THEN /\ result' = Err(o[2])
                     /\ pc' = "done"
                     /\ UNCHANGED current_row
                ELSE /\ current_row' = <<o[1], o[2], 0, 0>>
                     /\ pc' = "forward"
                     /\ UNCHANGED result
    /\ UNCHANGED <<x0, y0, phase, prev, down, up, k>>
    /\ UNCHANGED ringVars

\* Lines 158-164: one iteration of the forward loop.
ForwardStep ==
    /\ pc = "forward"
    /\ LoopCond(current_row)
    /\ down' = Append(down, DivRow(current_row))
    /\ current_row' = NextRow(DivRow(current_row))
    /\ UNCHANGED <<x0, y0, phase, prev, pc, x, y, swapped, up, k, result>>
    /\ UNCHANGED ringVars

\* Lines 165-168: the loop ended with remainder 0.
ForwardFail ==
    /\ pc = "forward"
    /\ ~LoopCond(current_row)
    /\ current_row[2] = 0
    /\ result' = Err(LoopGcd(current_row))
    /\ pc' = "done"
    /\ UNCHANGED <<x0, y0, phase, prev, x, y, swapped, current_row, down, up, k>>
    /\ UNCHANGED ringVars

\* Lines 171-176: the loop ended with remainder 1; seed the backward trace.
BackwardSeed ==
    /\ pc = "forward"
    /\ ~LoopCond(current_row)
    /\ current_row[2] # 0
    /\ IF Len(down) = 0
          THEN /\ result' = Panicked
               /\ pc' = "done"
               /\ UNCHANGED <<current_row, up, k>>
          ELSE /\ current_row' = SeedRow(down[Len(down)])
               /\ up' = <<SeedRow(down[Len(down)])>>
               /\ k' = Len(down) - 1
               /\ pc' = "backward"
               /\ UNCHANGED result
    /\ UNCHANGED <<x0, y0, phase, prev, x, y, swapped, down>>
    /\ UNCHANGED ringVars

\* Lines 177-188: one iteration of `for [z, _, d, _] in down.iter().rev().skip(1)`.
BackwardStep ==
    /\ pc = "backward"
    /\ k >= 1
    /\ LET row == BackRow(current_row, down[k][1], down[k][3])
       IN /\ current_row' = row
          /\ up' = Append(up, row)
    /\ k' = k - 1
    /\ UNCHANGED <<x0, y0, phase, prev, pc, x, y, swapped, down, result>>
    /\ UNCHANGED ringVars

\* Lines 189-195: un-swap and return Ok.
Return ==
    /\ pc = "backward"
    /\ k = 0
    /\ LET c == Coeffs(swapped, current_row)
       IN result' = Ok(c[1], c[2])
    /\ pc' = "done"
    /\ UNCHANGED <<x0, y0, phase, prev, x, y, swapped, current_row, down, up, k>>
    /\ UNCHANGED ringVars

\* A caller that, after extended_euclidean(x, y) returned, calls
\* extended_euclidean(y, x); the first call's result is kept in prev.
CallSwapped ==
    /\ pc = "done"
    /\ phase = 1
    /\ phase' = 2
    /\ prev' = result
    /\ x0' = y0
    /\ y0' = x0
    /\ pc' = "start"
    /\ x' = 0
    /\ y' = 0
    /\ swapped' = FALSE
    /\ current_row' = ZeroRow
    /\ down' = <<>>
    /\ up' = <<>>
    /\ k' = 0
    /\ result' = NoResult
    /\ UNCHANGED ringVars

NoElement == [ring |-> 1, value |-> 0]
NoOutcome == [kind |-> "none", ring |-> 1, value |-> 0]

Init ==
    /\ x0 \in (0 - MaxVal)..MaxVal
    /\ y0 \in (0 - MaxVal)..MaxVal
    /\ phase = 1
    /\ prev = NoResult
    /\ pc = "start"
    /\ x = 0
    /\ y = 0
    /\ swapped = FALSE
    /\ current_row = ZeroRow
    /\ down = <<>>
    /\ up = <<>>
    /\ k = 0
    /\ result = NoResult
    /\ op = "none"
    /\ lhs = NoElement
    /\ rhs = NoElement
    /\ out = NoOutcome

Next ==
    \/ Normalize
    \/ ForwardStep
    \/ ForwardFail
    \/ BackwardSeed
    \/ BackwardStep
    \/ Return
    \/ CallSwapped

Spec == Init /\ [][Next]_vars

\* The function body is straight-line sequential code: a step that can run
\* does run.
FairSpec == Spec /\ WF_vars(Next)

----------------------------------------------------------------------------
\* SmallRing / SmallRingElement.  An element is [ring |-> module, value |-> v];
\* SmallRing's derived PartialEq compares the module.  Values and moduli stay
\* far below 2^32, so the u64 sums and products in add, sub and mul cannot
\* overflow and are computed exactly.

\* Ring::create_element: the raw value is stored as given (no reduction).
create_element(m, v) == [ring |-> m, value |-> v]

Elements == {create_element(m, v) : m \in 1..MaxMod, v \in 0..MaxRaw}

\* What an operator call produces: an element, the ring-mismatch panic!, or an
\* arithmetic panic (remainder by zero, u64 subtraction overflow in a build
\* with overflow checks).  "wrapped" is the element a build without overflow
\* checks returns from neg when value > module: its value field holds
\* value - module, standing for 2^64 - (value - module).
Returned(e) == [kind |-> "elem", ring |-> e.ring, value |-> e.value]
MismatchPanic == [kind |-> "panic", ring |-> 1, value |-> 0]
ArithmeticPanic == [kind |-> "fault", ring |-> 1, value |-> 0]
Wrapped(m, v) == [kind |-> "wrapped", ring |-> m, value |-> v]

\* if self.ring != rhs.ring { panic!(...) }
RingMismatch(l, r) == l.ring # r.ring

\* impl Add
AddOp(l, r) ==
    IF RingMismatch(l, r) THEN MismatchPanic
    ELSE Returned(create_element(l.ring, (l.value + r.value) % l.ring))

\* impl Sub
SubOp(l, r) ==
    IF RingMismatch(l, r) THEN MismatchPanic
    ELSE Returned(create_element(l.ring, (l.value + l.ring + r.value) % l.ring))

\* impl Mul
MulOp(l, r) ==
    IF RingMismatch(l, r) THEN MismatchPanic
    ELSE Returned(create_element(l.ring, (l.value * r.value) % l.ring))

\* impl Rem: no ring check; `%` panics on a zero divisor.
RemOp(l, r) ==
    IF r.value = 0 THEN ArithmeticPanic
    ELSE Returned(create_element(l.ring, l.value % r.value))

\* impl Neg, when module - value does not underflow.
NegOp(e) == Returned(create_element(e.ring, e.ring - e.value))

\* impl Neg: every outcome a build can produce.
NegOutcomes(e) ==
    IF e.value <= e.ring THEN {NegOp(e)}
    ELSE {ArithmeticPanic, Wrapped(e.ring, e.value - e.ring)}

Add ==
    /\ \E l \in Elements, r \in Elements :
          /\ op' = "add"
          /\ lhs' = l
          /\ rhs' = r
          /\ out' = AddOp(l, r)
    /\ UNCHANGED euclidVars

Sub ==
    /\ \E l \in Elements, r \in Elements :
          /\ op' = "sub"
          /\ lhs' = l
          /\ rhs' = r
          /\ out' = SubOp(l, r)
    /\ UNCHANGED euclidVars

Mul ==
    /\ \E l \in Elements, r \in Elements :
          /\ op' = "mul"
          /\ lhs' = l
          /\ rhs' = r
          /\ out' = MulOp(l, r)
    /\ UNCHANGED euclidVars

Rem ==
    /\ \E l \in Elements, r \in Elements :
          /\ op' = "rem"
          /\ lhs' = l
          /\ rhs' = r
          /\ out' = RemOp(l, r)
    /\ UNCHANGED euclidVars

Neg ==
    /\ \E e \in Elements :
          /\ op' = "neg"
          /\ lhs' = e
          /\ rhs' = e
          /\ out' \in NegOutcomes(e)
    /\ UNCHANGED euclidVars

RingInit ==
    /\ x0 = 0
    /\ y0 = 0
    /\ phase = 1
    /\ prev = NoResult
    /\ pc = "start"
    /\ x = 0
    /\ y = 0
    /\ swapped = FALSE
    /\ current_row = ZeroRow
    /\ down = <<>>
    /\ up = <<>>
    /\ k = 0
    /\ result = NoResult
    /\ op = "none"
    /\ lhs = NoElement
    /\ rhs = NoElement
    /\ out = NoOutcome

RingNext ==
    \/ Add
    \/ Sub
    \/ Mul
    \/ Rem
    \/ Neg

RingSpec == RingInit /\ [][RingNext]_vars

----------------------------------------------------------------------------
\* Vocabulary of the properties.

Min(a, b) == IF a < b THEN a ELSE b
Max(a, b) == IF a < b THEN b ELSE a

\* The greatest common divisor of two naturals, by its definition
\* (GCD(0, 0) = 0).
GCD(a, b) ==
    IF a = 0 /\ b = 0 THEN 0
    ELSE CHOOSE d \in 1..Max(a, b) :
            /\ a % d = 0
            /\ b % d = 0
            /\ \A e \in 1..Max(a, b) : (a % e = 0 /\ b % e = 0) => e <= d

Returns == pc = "done"

----------------------------------------------------------------------------
\* Properties of extended_euclidean.

\* C1: for every coprime pair (x, y) of either sign with |x| >= 2 and
\* |y| >= 2 the call succeeds with (a, b) such that a*x + b*y = 1 for the
\* caller's own x and y, in the caller's argument order.
C1_BezoutForCallerArguments ==
    (Returns /\ Abs(x0) >= 2 /\ Abs(y0) >= 2 /\ GCD(Abs(x0), Abs(y0)) = 1)
        => /\ result.kind = "ok"
           /\ result.a * x0 + result.b * y0 = 1

\* C2: when gcd(|x|, |y|) = g > 1 the call fails carrying exactly g; the
\* forward loop ended with remainder 0 and g is the last nonzero divisor.
C2_NonCoprimeFailsWithGcd ==
    (Returns /\ GCD(Abs(x0), Abs(y0)) > 1)
        => /\ result = Err(GCD(Abs(x0), Abs(y0)))
           /\ current_row[2] = 0
           /\ Len(down) > 0
           /\ down[Len(down)][4] = 0
           /\ down[Len(down)][2] = result.gcd

C2_Witness ==
    /\ Returns
    /\ result.kind = "err"
    /\ result.gcd = 2
    /\ x0 < 0
    /\ Abs(x0) > Abs(y0)
    /\ Len(down) >= 3

\* C3: when at least one argument is 0 the call fails carrying the absolute
\* value of the other argument, whichever position the zero is in.
C3_ZeroArgumentFailsWithOther ==
    (Returns /\ (x0 = 0 \/ y0 = 0))
        => result = Err(IF x0 = 0 THEN Abs(y0) ELSE Abs(x0))

C3_Witness ==
    /\ Returns
    /\ y0 = 0
    /\ x0 < 0 - 1
    /\ result = Err(Abs(x0))

\* C4: calling with the arguments swapped swaps the coefficients: a success
\* (a, b) becomes the success (b, a), and a failure becomes a failure with
\* the same gcd.  prev is the result of the call on (y0, x0).
C4_SwappedArgumentsSwapCoefficients ==
    (Returns /\ phase = 2)
        => /\ prev.kind = "ok" => result = Ok(prev.b, prev.a)
           /\ (prev.kind = "err" \/ result.kind = "err") => result = prev

C4_Witness ==
    /\ Returns
    /\ phase = 2
    /\ prev.kind = "ok"
    /\ result.kind = "ok"
    /\ prev.a # prev.b
    /\ x0 < 0

\* C5 as stated: whenever the smaller of |x| and |y| is below 2 the call
\* fails before any forward division step, carrying that smaller value.
C5_SmallerBelowTwoFailsAtOnce ==
    (Returns /\ Min(Abs(x0), Abs(y0)) < 2)
        => /\ result = Err(Min(Abs(x0), Abs(y0)))
           /\ down = <<>>

\* C5 amended: whenever the larger of |x| and |y| is below 2 the call fails
\* before any forward division step, carrying that larger value.
C5_LargerBelowTwoFailsAtOnce ==
    (Returns /\ Max(Abs(x0), Abs(y0)) < 2)
        => /\ result = Err(Max(Abs(x0), Abs(y0)))
           /\ down = <<>>

C5_Witness ==
    /\ Returns
    /\ Abs(x0) = 1
    /\ y0 = 0
    /\ result = Err(1)
    /\ down = <<>>

\* C6: every call terminates: each call that starts returns, the divisor
\* strictly decreases with every forward division step, and every backward
\* step consumes one of the remaining forward rows.
C6_EveryCallTerminates ==
    /\ (pc = "start") ~> Returns
    /\ [][(pc = "forward" /\ pc' = "forward")
            => current_row'[2] < current_row[2]]_vars
    /\ [][(pc = "backward" /\ pc' = "backward") => (k >= 1 /\ k' = k - 1)]_vars

C6_Witness ==
    /\ Returns
    /\ phase = 2
    /\ result.kind = "ok"
    /\ Len(down) >= 4
    /\ Len(up) = Len(down)

\* C10: on success with n forward rows the backward trace has n rows, each
\* row up[i] = [p, a, q, b] has p*a + q*b = 1 with p and q the dividend and
\* divisor of the forward row down[n-1-i], and the last backward row is for
\* the ordered pair (min(|x|,|y|), max(|x|,|y|)).
C10_BackwardRowsAreBezout ==
    (Returns /\ result.kind = "ok")
        => /\ Len(up) = Len(down)
           /\ \A i \in 1..Len(up) :
                 /\ up[i][1] * up[i][2] + up[i][3] * up[i][4] = 1
                 /\ up[i][1] = down[Len(down) + 1 - i][1]
                 /\ up[i][3] = down[Len(down) + 1 - i][2]
           /\ up[Len(up)][1] = Min(Abs(x0), Abs(y0))
           /\ up[Len(up)][3] = Max(Abs(x0), Abs(y0))

C10_Witness ==
    /\ Returns
    /\ result.kind = "ok"
    /\ Len(up) >= 4
    /\ up[Len(up)][4] # 0
    /\ y0 < 0

----------------------------------------------------------------------------
\* Properties of the ring operations.

InRange(e) == e.value < e.ring
IsBinary == op \in {"add", "sub", "mul", "rem"}

\* C7: for operands of one ring with residues in [0, M), the element every
\* operation (add, sub, mul, rem, neg) returns has its residue in [0, M);
\* in particular neg of the zero element.
C7_ResultsAreReduced ==
    (/\ op # "none"
     /\ out.kind = "elem"
     /\ InRange(lhs)
     /\ IsBinary => (InRange(rhs) /\ rhs.ring = lhs.ring))
        => (out.ring = lhs.ring /\ out.value \in 0..(out.ring - 1))

\* C8: add, sub, mul and rem abort, producing no element, whenever the two
\* operands belong to rings with different moduli.
C8_MismatchedRingsAbort ==
    (IsBinary /\ lhs.ring # rhs.ring) => out.kind \in {"panic", "fault"}

\* C9: sub is ring subtraction: for a, b of one ring with residues in
\* [0, M), sub(a, b) has the residue of add(a, neg(b)), (a - b) mod M.
C9_SubIsAddOfNeg ==
    (op = "sub" /\ lhs.ring = rhs.ring /\ InRange(lhs) /\ InRange(rhs))
        => /\ out.kind = "elem"
           /\ out.value = (lhs.value - rhs.value) % lhs.ring
           /\ out.value =
                  AddOp(lhs, create_element(rhs.ring, NegOp(rhs).value)).value

====
